---- MODULE Spec2Model ----
(***************************************************************************)
(* Verification model of the eigo flashcard scheduler: the interval        *)
(* calculator and daily queue selector of utils/spaced-repetition, the     *)
(* log store of services/storage, and the useDeck study-session hook.      *)
(*                                                                         *)
(* Time is counted in ticks; the source counts in milliseconds.  One       *)
(* minute is TicksPerMinute ticks, so the source's 1000 * 60 reads         *)
(* TicksPerMinute here and every duration keeps the source's remaining     *)
(* factors.  Multipliers are fixed-point numbers in thousandths (1.1 is    *)
(* 1100); a product with a multiplier is rounded down to a whole tick.     *)
(***************************************************************************)
EXTENDS Integers, Sequences, FiniteSets, TLC

\* ------------------------------------------------------------------------
\* Bounds of the model
\* ------------------------------------------------------------------------

\* resolution of the model clock: ticks per minute
TicksPerMinute == 1

\* largest number of prior logs handed to calculateNextReviewDate
MaxLogs == 3

\* ------------------------------------------------------------------------
\* Types (types/index.ts)
\* ------------------------------------------------------------------------

ResponseType == {"wrong", "again", "hard", "correct", "easy"}

MINUTE == TicksPerMinute
HOUR == 60 * MINUTE
DAY == 24 * HOUR

\* ------------------------------------------------------------------------
\* utils/spaced-repetition.ts
\* ------------------------------------------------------------------------

DEFAULT_INTERVALS ==
  [rt \in ResponseType |->
     CASE rt = "wrong"   -> TicksPerMinute * 60
       [] rt = "again"   -> TicksPerMinute * 60 * 6
       [] rt = "hard"    -> TicksPerMinute * 60 * 24
       [] rt = "correct" -> TicksPerMinute * 60 * 24 * 3
       [] rt = "easy"    -> TicksPerMinute * 60 * 24 * 7]

\* thousandths
DEFAULT_MULTIPLIERS ==
  [rt \in ResponseType |->
     CASE rt = "wrong"   -> 1100
       [] rt = "again"   -> 1200
       [] rt = "hard"    -> 1500
       [] rt = "correct" -> 2000
       [] rt = "easy"    -> 2500]

MAX_INTERVAL == TicksPerMinute * 60 * 24 * 180

Max(a, b) == IF a >= b THEN a ELSE b
Min(a, b) == IF a <= b THEN a ELSE b

\* x * m for a multiplier m in thousandths, rounded down to a whole tick
\* (split so that no intermediate product leaves the 32-bit range)
TimesMultiplier(x, m) == (x \div 1000) * m + ((x % 1000) * m) \div 1000

\* mutant: the defensive re-filter by cardId is dropped
CardLogsOf_NoFilter(previousLogs, cardId) == previousLogs

\* previousLogs.filter(log => log.cardId === cardId)
CardLogsOf(previousLogs, cardId) ==
  SelectSeq(previousLogs, LAMBDA log : log.cardId = cardId)

\* the log the calculator treats as the last one: cardLogs[0]
LastLogOf(cardLogs) == cardLogs[1]

\* the early / overdue scaling in tenths: 9 is *0.9, 7 is *0.7, 10 is none
TimingFactor(lastLog, now) ==
  IF now < lastLog.nextReviewDate THEN 9
  ELSE IF now > lastLog.nextReviewDate + TicksPerMinute * 60 * 24 * 7 THEN 7
  ELSE 10

\* the for-loop with break over cardLogs, from its first element
ConsecutiveCorrect(cardLogs) ==
  CHOOSE n \in 0..Len(cardLogs) :
    /\ \A i \in 1..n : cardLogs[i].responseType \in {"correct", "easy"}
    /\ n < Len(cardLogs) => cardLogs[n + 1].responseType \notin {"correct", "easy"}

\* 1 + consecutiveCorrect * 0.1 in tenths; 10 when the streak is empty
ConsecutiveFactor(cardLogs) ==
  IF ConsecutiveCorrect(cardLogs) > 0 THEN 10 + ConsecutiveCorrect(cardLogs) ELSE 10

\* adjustedMultiplier in thousandths
AdjustedMultiplier(responseType, cardLogs, multipliers, now) ==
  (((multipliers[responseType] * TimingFactor(LastLogOf(cardLogs), now)) \div 10)
     * ConsecutiveFactor(cardLogs)) \div 10

PreviousInterval(cardLogs) ==
  LastLogOf(cardLogs).nextReviewDate - LastLogOf(cardLogs).studiedAt

\* mutant: a WRONG response goes through the multiplier chain like the others
RawInterval_NoWrongReset(cardId, responseType, previousLogs, intervals, multipliers, now) ==
  LET cardLogs == CardLogsOf(previousLogs, cardId) IN
  IF Len(cardLogs) > 0
  THEN Max(TimesMultiplier(PreviousInterval(cardLogs),
                           AdjustedMultiplier(responseType, cardLogs, multipliers, now)),
           intervals[responseType])
  ELSE intervals[responseType]

\* mutant: the multiplied previous interval is taken without the floor
RawInterval_NoFloor(cardId, responseType, previousLogs, intervals, multipliers, now) ==
  LET cardLogs == CardLogsOf(previousLogs, cardId) IN
  IF Len(cardLogs) > 0
  THEN IF responseType = "wrong"
       THEN intervals["wrong"]
       ELSE TimesMultiplier(PreviousInterval(cardLogs),
                            AdjustedMultiplier(responseType, cardLogs, multipliers, now))
  ELSE intervals[responseType]

\* the interval before the ceiling is applied
RawInterval(cardId, responseType, previousLogs, intervals, multipliers, now) ==
  LET cardLogs == CardLogsOf(previousLogs, cardId) IN
  IF Len(cardLogs) > 0
  THEN IF responseType = "wrong"
       THEN intervals["wrong"]
       ELSE Max(TimesMultiplier(PreviousInterval(cardLogs),
                                AdjustedMultiplier(responseType, cardLogs, multipliers, now)),
                intervals[responseType])
  ELSE intervals[responseType]

\* mutant: the ceiling is not applied
ClampInterval_NoCeiling(interval) == interval

\* interval = Math.min(interval, MAX_INTERVAL)
ClampInterval(interval) == Min(interval, MAX_INTERVAL)

calculateNextReviewDate(cardId, responseType, previousLogs, intervals, multipliers, now) ==
  now + ClampInterval(RawInterval(cardId, responseType, previousLogs,
                                  intervals, multipliers, now))

\* today.setHours(0, 0, 0, 0): the local midnight at or before now (the
\* local zone is taken without offset or daylight-saving shift)
TodayStart(now) == now - (now % (TicksPerMinute * 60 * 24))

\* tomorrow.setDate(tomorrow.getDate() + 1)
TomorrowStart(now) == TodayStart(now) + TicksPerMinute * 60 * 24

\* new Set(logs.map(log => log.cardId))
StudiedCardIds(logs) == { logs[i].cardId : i \in 1..Len(logs) }

\* mutant: no card is filtered out of the new candidates
NewCandidates_NoFilter(logs, allCardIds) == allCardIds

\* mutant: the new candidates come out in reverse order
NewCandidates_Reversed(logs, allCardIds) ==
  LET kept == SelectSeq(allCardIds, LAMBDA id : id \notin StudiedCardIds(logs))
  IN [i \in 1..Len(kept) |-> kept[Len(kept) + 1 - i]]

\* allCardIds.filter(id => !studiedCardIds.has(id))
NewCandidates(logs, allCardIds) ==
  SelectSeq(allCardIds, LAMBDA id : id \notin StudiedCardIds(logs))

\* todayLogs.length > 0 for the card: a log of it was studied inside today
StudiedToday(logs, cardId, now) ==
  \E i \in 1..Len(logs) :
    /\ logs[i].cardId = cardId
    /\ logs[i].studiedAt >= TodayStart(now)
    /\ logs[i].studiedAt < TomorrowStart(now)

\* mutant: cards studied today are not filtered out
DueLogs_NoTodayFilter(logs, now) ==
  SelectSeq(logs, LAMBDA log : log.nextReviewDate <= now)

\* mutant: a log due exactly now is not yet due
DueLogs_StrictlyDue(logs, now) ==
  SelectSeq(logs, LAMBDA log : /\ log.nextReviewDate < now
                               /\ ~StudiedToday(logs, log.cardId, now))

\* the two filters over logs: due, and not studied today
DueLogs(logs, now) ==
  SelectSeq(logs, LAMBDA log : /\ log.nextReviewDate <= now
                               /\ ~StudiedToday(logs, log.cardId, now))

\* .map(log => log.cardId)
CardIdsOf(logs) == [i \in 1..Len(logs) |-> logs[i].cardId]

\* Array.from(new Set(ids)): first occurrences, in insertion order
RECURSIVE Distinct(_)
Distinct(ids) ==
  IF ids = <<>> THEN <<>>
  ELSE LET front == Distinct(SubSeq(ids, 1, Len(ids) - 1))
           last == ids[Len(ids)]
       IN IF \E i \in 1..Len(front) : front[i] = last THEN front
          ELSE Append(front, last)

ReviewCandidates(logs, now) == Distinct(CardIdsOf(DueLogs(logs, now)))

\* mutant: the slice keeps one element more than the cap
Slice_OneMore(ids, end) ==
  SubSeq(ids, 1, IF end < 0 THEN Max(Len(ids) + end, 0) ELSE Min(end + 1, Len(ids)))

\* Array.prototype.slice(0, end) for an integer end: a negative end counts
\* from the end of the array
Slice(ids, end) ==
  SubSeq(ids, 1, IF end < 0 THEN Max(Len(ids) + end, 0) ELSE Min(end, Len(ids)))

calculateTodayCards(logs, newCardsPerDay, reviewCardsPerDay, allCardIds, now) ==
  [newCardIds |-> Slice(NewCandidates(logs, allCardIds), newCardsPerDay),
   reviewCardIds |-> Slice(ReviewCandidates(logs, now), reviewCardsPerDay)]

\* ------------------------------------------------------------------------
\* Settings (services/storage.ts, types/index.ts)
\* ------------------------------------------------------------------------

\* ReviewIntervals of DEFAULT_USER_SETTINGS: base intervals in minutes,
\* multipliers in thousandths
DEFAULT_REVIEW_INTERVALS ==
  [minutes |-> [rt \in ResponseType |->
                  CASE rt = "wrong"   -> 60
                    [] rt = "again"   -> 360
                    [] rt = "hard"    -> 1440
                    [] rt = "correct" -> 4320
                    [] rt = "easy"    -> 10080],
   multiplier |-> [rt \in ResponseType |->
                  CASE rt = "wrong"   -> 1100
                    [] rt = "again"   -> 1200
                    [] rt = "hard"    -> 1500
                    [] rt = "correct" -> 2000
                    [] rt = "easy"    -> 2500]]

\* a user-adjusted table: forgetting and easy answers are scheduled beyond
\* half a year, every multiplier is 1.0
LongReviewIntervals ==
  [minutes |-> [rt \in ResponseType |->
                  CASE rt = "wrong"   -> 60 * 24 * 200
                    [] rt = "again"   -> 360
                    [] rt = "hard"    -> 1440
                    [] rt = "correct" -> 4320
                    [] rt = "easy"    -> 60 * 24 * 365],
   multiplier |-> [rt \in ResponseType |-> 1000]]

\* a user-adjusted table whose wrong interval is zero
ZeroReviewIntervals ==
  [minutes |-> [rt \in ResponseType |->
                  CASE rt = "wrong"   -> 0
                    [] rt = "again"   -> 360
                    [] rt = "hard"    -> 1440
                    [] rt = "correct" -> 4320
                    [] rt = "easy"    -> 10080],
   multiplier |-> [rt \in ResponseType |->
                  CASE rt = "wrong"   -> 1100
                    [] rt = "again"   -> 1200
                    [] rt = "hard"    -> 1500
                    [] rt = "correct" -> 2000
                    [] rt = "easy"    -> 2500]]

\* the interval table handleResponse builds: minutes * 60 * 1000
IntervalsOf(reviewIntervals) ==
  [rt \in ResponseType |-> reviewIntervals.minutes[rt] * TicksPerMinute]

\* the multiplier table handleResponse builds
MultipliersOf(reviewIntervals) ==
  [rt \in ResponseType |-> reviewIntervals.multiplier[rt]]

\* ------------------------------------------------------------------------
\* State
\* ------------------------------------------------------------------------

VARIABLES
  cLogs,   \* calculator: the previousLogs argument being assembled
  cCall,   \* calculator: the call made and its result, or NoCall
  tLogs,   \* selector: the logs argument being assembled
  tCall,   \* selector: the call made and its result, or NoCall
  rCall,   \* success rate: the call made and its result, or NoCall
  storeLogs,        \* AsyncStorage eigo_study_logs: the persisted StudyLog array
  storeSettings,    \* AsyncStorage eigo_user_settings, merged over the defaults
  events,           \* the number of user and environment events so far
  clock,            \* Date.now()
  uuid,             \* the number of log ids handed out by uuidv4()
  deckId,           \* useDeck: the deckId argument of the current render
  deck,             \* useDeck state
  cards,            \* useDeck state: the cards of the deck
  studyCards,       \* useDeck state: the queue of this session
  currentCardIndex, \* useDeck state
  currentCard,      \* useDeck state
  logs,             \* useDeck state: the local copy of the logs
  settings,         \* useDeck state
  isLoading,        \* useDeck state
  progress,         \* useDeck state
  sessionStats,     \* useDeck state
  loads,            \* loadDeckAndCards runs suspended at an await
  calls,            \* handleResponse runs suspended inside LogStorage.save
  scrStartTime,     \* StudyScreen state startTime, or NoTime
  scrResponseTime,  \* StudyScreen state responseTime, or NoTime
  isFlipped,        \* Card state
  presses           \* the number of presses of a response button so far

calcVars == <<cLogs, cCall>>
todayVars == <<tLogs, tCall>>
rateVars == <<rCall>>
screenVars == <<scrStartTime, scrResponseTime, isFlipped, presses>>
storeVars == <<storeLogs, storeSettings, events, clock, uuid>>
hookVars == <<deckId, deck, cards, studyCards, currentCardIndex, currentCard,
              logs, settings, isLoading, progress, sessionStats>>
sessVars == <<storeVars, hookVars, loads, calls, screenVars>>
vars == <<cLogs, cCall, tLogs, tCall, rCall, storeLogs, storeSettings, events, clock,
          uuid, deckId, deck, cards, studyCards, currentCardIndex, currentCard,
          logs, settings, isLoading, progress, sessionStats, loads, calls,
          scrStartTime, scrResponseTime, isFlipped, presses>>

NoCall == [made |-> FALSE]

\* no calculator call is being assembled
CalcIdle ==
  /\ cLogs = <<>>
  /\ cCall = NoCall

\* no selector call is being assembled
\* no call of calculateSuccessRate yet
RateIdle == rCall = NoCall

\* null of the screen's startTime and responseTime
NoTime == 0 - 1

\* the useState initial values of StudyScreen and Card
ScreenIdle ==
  /\ scrStartTime = NoTime
  /\ scrResponseTime = NoTime
  /\ isFlipped = FALSE
  /\ presses = 0

TodayIdle ==
  /\ tLogs = <<>>
  /\ tCall = NoCall

\* ------------------------------------------------------------------------
\* The store and the study session (services/storage.ts, hooks/useDeck.ts)
\* ------------------------------------------------------------------------

\* largest number of user and environment events in one behaviour: responses,
\* resets, changes of deckId, days passing and rejected AsyncStorage calls
MaxEvents == 2

\* CardStorage.getAll(): the stored cards, a card standing for its id
AllCards == <<"c1", "c2", "c3">>

\* DeckStorage.getAll(): the stored decks
DeckIds == {"d1", "d2"}

Deck(id) ==
  [id |-> id, cardIds |-> IF id = "d1" THEN <<"c1", "c2">> ELSE <<"c3">>]

\* the deckId of the study screen when no deck is chosen ('next' maps to '')
MissingDeckId == ""

NoDeck == [id |-> "null", cardIds |-> <<>>]
NoCard == "null"
NoSettings == [null |-> TRUE]

DEFAULT_USER_SETTINGS ==
  [newCardsPerDay |-> 20, reviewCardsPerDay |-> 100,
   reviewIntervals |-> DEFAULT_REVIEW_INTERVALS]

\* the settings a user may have saved
UserSettingsSet ==
  { DEFAULT_USER_SETTINGS,
    [newCardsPerDay |-> 1, reviewCardsPerDay |-> 1,
     reviewIntervals |-> LongReviewIntervals],
    [newCardsPerDay |-> 20, reviewCardsPerDay |-> 100,
     reviewIntervals |-> ZeroReviewIntervals],
    [newCardsPerDay |-> 0, reviewCardsPerDay |-> 0,
     reviewIntervals |-> DEFAULT_REVIEW_INTERVALS] }

\* the instant the session starts: noon of day 10
StartNow == 10 * DAY + 12 * HOUR

\* what LogStorage holds when the screen opens: nothing, or the log of an
\* earlier day's wrong answer on c3 of deck d2, due again an hour after it
StoredLogsSet ==
  { <<>>,
    << [id |-> 0, cardId |-> "c3", deckId |-> "d2",
        studiedAt |-> StartNow - 2 * DAY, responseTime |-> 5 * TicksPerMinute,
        responseType |-> "wrong",
        nextReviewDate |-> StartNow - 2 * DAY + HOUR] >> }

InitialStats ==
  [correct |-> 0, incorrect |-> 0, again |-> 0, hard |-> 0, easy |-> 0]

\* the counter of sessionStats a response type is counted in
StatOf(responseType) ==
  IF responseType = "wrong" THEN "incorrect" ELSE responseType

Range(seq) == { seq[i] : i \in 1..Len(seq) }

RemoveAt(seq, i) == SubSeq(seq, 1, i - 1) \o SubSeq(seq, i + 1, Len(seq))

\* [...todayCards].sort(() => Math.random() - 0.5): some order of the cards
Shuffles(seq) ==
  { [i \in 1..Len(seq) |-> seq[p[i]]] : p \in Permutations(1..Len(seq)) }

\* the outcomes of one AsyncStorage call: served (TRUE) or rejected (FALSE)
StorageOutcomes == IF events < MaxEvents THEN {TRUE, FALSE} ELSE {TRUE}

\* the count of events after a storage call with outcome ok
Counted(ok) == IF ok THEN events ELSE events + 1

\* isSessionComplete of the hook's return value
isSessionComplete == progress.completed = progress.total /\ progress.total > 0

\* a run of loadDeckAndCards suspended at its first await
NewLoad(id) ==
  [deckId |-> id, pc |-> "settings", userSettings |-> NoSettings, allCards |-> <<>>]

\* the useState initial values, with the effect of the first render started
SessIdle ==
  /\ storeLogs = <<>>
  /\ storeSettings = DEFAULT_USER_SETTINGS
  /\ events = 0
  /\ clock = StartNow
  /\ uuid = 0
  /\ deckId = MissingDeckId
  /\ deck = NoDeck
  /\ cards = <<>>
  /\ studyCards = <<>>
  /\ currentCardIndex = 0
  /\ currentCard = NoCard
  /\ logs = <<>>
  /\ settings = NoSettings
  /\ isLoading = TRUE
  /\ progress = [completed |-> 0, total |-> 0]
  /\ sessionStats = InitialStats
  /\ loads = <<>>
  /\ calls = <<>>
  /\ ScreenIdle

Init ==
  /\ CalcIdle
  /\ TodayIdle
  /\ RateIdle
  /\ ScreenIdle
  /\ storeLogs \in StoredLogsSet
  /\ storeSettings \in UserSettingsSet
  /\ events = 0
  /\ clock = StartNow
  /\ uuid = 0
  /\ deckId \in DeckIds \cup {MissingDeckId}
  /\ deck = NoDeck
  /\ cards = <<>>
  /\ studyCards = <<>>
  /\ currentCardIndex = 0
  /\ currentCard = NoCard
  /\ logs = <<>>
  /\ settings = NoSettings
  /\ isLoading = TRUE
  /\ progress = [completed |-> 0, total |-> 0]
  /\ sessionStats = InitialStats
  /\ loads = <<NewLoad(deckId)>>
  /\ calls = <<>>

\* loadDeckAndCards resumes after await SettingsStorage.get()
LoadSettings(i) ==
  /\ loads[i].pc = "settings"
  /\ \E ok \in StorageOutcomes :
       LET userSettings == IF ok THEN storeSettings ELSE DEFAULT_USER_SETTINGS
       IN /\ settings' = userSettings
          /\ loads' = [loads EXCEPT ![i].pc = "deck", ![i].userSettings = userSettings]
          /\ events' = Counted(ok)
  /\ UNCHANGED <<calcVars, todayVars, rateVars, screenVars, storeLogs, storeSettings, clock, uuid,
                 calls, deckId, deck, cards, studyCards,
                 currentCardIndex, currentCard, logs, isLoading, progress, sessionStats>>

\* loadDeckAndCards resumes after await DeckStorage.getById(deckId)
LoadDeck(i) ==
  /\ loads[i].pc = "deck"
  /\ \E ok \in StorageOutcomes :
       /\ IF ok /\ loads[i].deckId \in DeckIds
          THEN /\ deck' = Deck(loads[i].deckId)
               /\ loads' = [loads EXCEPT ![i].pc = "cards"]
               /\ UNCHANGED isLoading
          ELSE \* throw, caught and logged; finally setIsLoading(false)
               /\ isLoading' = FALSE
               /\ loads' = RemoveAt(loads, i)
               /\ UNCHANGED deck
       /\ events' = Counted(ok)
  /\ UNCHANGED <<calcVars, todayVars, rateVars, screenVars, storeLogs, storeSettings, clock, uuid,
                 calls, deckId, cards, studyCards,
                 currentCardIndex, currentCard, logs, settings, progress, sessionStats>>

\* loadDeckAndCards resumes after await CardStorage.getAll()
LoadCards(i) ==
  /\ loads[i].pc = "cards"
  /\ \E ok \in StorageOutcomes :
       LET allCards == IF ok THEN AllCards ELSE <<>>
           deckData == Deck(loads[i].deckId)
       IN /\ cards' = SelectSeq(allCards, LAMBDA card : card \in Range(deckData.cardIds))
          /\ loads' = [loads EXCEPT ![i].pc = "logs", ![i].allCards = allCards]
          /\ events' = Counted(ok)
  /\ UNCHANGED <<calcVars, todayVars, rateVars, screenVars, storeLogs, storeSettings, clock, uuid,
                 calls, deckId, deck, studyCards,
                 currentCardIndex, currentCard, logs, settings, isLoading, progress,
                 sessionStats>>

\* loadDeckAndCards resumes after await LogStorage.getAll() and runs to its end
LoadLogs(i) ==
  /\ loads[i].pc = "logs"
  /\ \E ok \in StorageOutcomes :
       LET studyLogs == IF ok THEN storeLogs ELSE <<>>
           deckData == Deck(loads[i].deckId)
           today == calculateTodayCards(studyLogs,
                                        loads[i].userSettings.newCardsPerDay,
                                        loads[i].userSettings.reviewCardsPerDay,
                                        deckData.cardIds, clock)
           todayCardIds == today.reviewCardIds \o today.newCardIds
           todayCards == SelectSeq(loads[i].allCards,
                                   LAMBDA card : card \in Range(todayCardIds))
       IN /\ logs' = studyLogs
          /\ \E shuffledCards \in Shuffles(todayCards) :
               /\ studyCards' = shuffledCards
               /\ progress' = [completed |-> 0, total |-> Len(shuffledCards)]
               /\ currentCard' = IF Len(shuffledCards) > 0 THEN shuffledCards[1]
                                 ELSE currentCard
          /\ events' = Counted(ok)
  /\ isLoading' = FALSE
  /\ loads' = RemoveAt(loads, i)
  /\ UNCHANGED <<calcVars, todayVars, rateVars, screenVars, storeLogs, storeSettings, clock, uuid,
                 calls, deckId, deck, cards,
                 currentCardIndex, settings, sessionStats>>

\* the screen renders useDeck with another deckId: the effect starts a load
ChangeDeck(id) ==
  /\ id # deckId
  /\ events < MaxEvents
  /\ events' = events + 1
  /\ deckId' = id
  /\ isLoading' = TRUE
  /\ loads' = Append(loads, NewLoad(id))
  /\ UNCHANGED <<calcVars, todayVars, rateVars, screenVars, storeLogs, storeSettings, clock, uuid,
                 calls, deck, cards, studyCards,
                 currentCardIndex, currentCard, logs, settings, progress, sessionStats>>

\* the response times the screen passes
ResponseTimes == { 5 * TicksPerMinute }

\* mutant: the guard of handleResponse does not test currentCard
HandleResponse_NoCardGuard(responseType, responseTime) ==
  /\ events < MaxEvents
  /\ events' = events + 1
  /\ IF deck # NoDeck /\ settings # NoSettings
     THEN LET cardLogs == SelectSeq(logs, LAMBDA log : log.cardId = currentCard)
              nextReviewDate ==
                calculateNextReviewDate(currentCard, responseType, cardLogs,
                                        IntervalsOf(settings.reviewIntervals),
                                        MultipliersOf(settings.reviewIntervals), clock)
              studyLog == [id |-> uuid + 1,
                           cardId |-> currentCard,
                           deckId |-> deck.id,
                           studiedAt |-> clock,
                           responseTime |-> responseTime,
                           responseType |-> responseType,
                           nextReviewDate |-> nextReviewDate]
          IN /\ calls' = Append(calls, [pc |-> "getAll",
                                        studyLog |-> studyLog,
                                        nextIndex |-> currentCardIndex + 1,
                                        studyCards |-> studyCards,
                                        read |-> <<>>])
             /\ uuid' = uuid + 1
     ELSE UNCHANGED <<calls, uuid>>
  /\ UNCHANGED <<calcVars, todayVars, rateVars, storeLogs, storeSettings, clock,
                 hookVars, loads>>

\* handleResponse up to await LogStorage.save(studyLog), which suspends at
\* its await this.getAll(); without a current card, deck or settings it returns
HandleResponse(responseType, responseTime) ==
  /\ events < MaxEvents
  /\ events' = events + 1
  /\ IF currentCard # NoCard /\ deck # NoDeck /\ settings # NoSettings
     THEN LET cardLogs == SelectSeq(logs, LAMBDA log : log.cardId = currentCard)
              nextReviewDate ==
                calculateNextReviewDate(currentCard, responseType, cardLogs,
                                        IntervalsOf(settings.reviewIntervals),
                                        MultipliersOf(settings.reviewIntervals), clock)
              studyLog == [id |-> uuid + 1,
                           cardId |-> currentCard,
                           deckId |-> deck.id,
                           studiedAt |-> clock,
                           responseTime |-> responseTime,
                           responseType |-> responseType,
                           nextReviewDate |-> nextReviewDate]
          IN /\ calls' = Append(calls, [pc |-> "getAll",
                                        studyLog |-> studyLog,
                                        nextIndex |-> currentCardIndex + 1,
                                        studyCards |-> studyCards,
                                        read |-> <<>>])
             /\ uuid' = uuid + 1
     ELSE UNCHANGED <<calls, uuid>>
  /\ UNCHANGED <<calcVars, todayVars, rateVars, storeLogs, storeSettings, clock,
                 hookVars, loads>>

\* LogStorage.save resumes after await this.getAll(), pushes the log and
\* suspends at await AsyncStorage.setItem
LogStorageGetAll(i) ==
  /\ calls[i].pc = "getAll"
  /\ \E ok \in StorageOutcomes :
       /\ calls' = [calls EXCEPT ![i].pc = "setItem",
                                 ![i].read = IF ok THEN storeLogs ELSE <<>>]
       /\ events' = Counted(ok)
  /\ UNCHANGED <<calcVars, todayVars, rateVars, screenVars, storeLogs, storeSettings, clock, uuid,
                 hookVars, loads>>

\* AsyncStorage.setItem settles, LogStorage.save returns true or false, and
\* handleResponse runs from its await to its end
HandleResponseResume(i) ==
  /\ calls[i].pc = "setItem"
  /\ LET call == calls[i]
         studyLog == call.studyLog
     IN /\ \E ok \in StorageOutcomes :
             /\ storeLogs' = IF ok THEN Append(call.read, studyLog) ELSE storeLogs
             /\ events' = Counted(ok)
        /\ logs' = Append(logs, studyLog)
        /\ sessionStats' = [sessionStats EXCEPT ![StatOf(studyLog.responseType)] = @ + 1]
        /\ currentCardIndex' = call.nextIndex
        /\ progress' = [progress EXCEPT !.completed = @ + 1]
        /\ currentCard' = IF call.nextIndex < Len(call.studyCards)
                          THEN call.studyCards[call.nextIndex + 1]
                          ELSE NoCard
  /\ calls' = RemoveAt(calls, i)
  /\ UNCHANGED <<calcVars, todayVars, rateVars, screenVars, storeSettings, clock, uuid, loads,
                 deckId, deck, cards, studyCards, settings, isLoading>>

\* mutant: resetSession leaves the statistics as they are
ResetSession_KeepStats ==
  /\ events < MaxEvents
  /\ events' = events + 1
  /\ IF settings # NoSettings /\ deck # NoDeck
     THEN LET today == calculateTodayCards(logs, settings.newCardsPerDay,
                                           settings.reviewCardsPerDay,
                                           deck.cardIds, clock)
              todayCardIds == today.reviewCardIds \o today.newCardIds
              todayCards == SelectSeq(cards, LAMBDA card : card \in Range(todayCardIds))
          IN \E shuffledCards \in Shuffles(todayCards) :
               /\ studyCards' = shuffledCards
               /\ progress' = [completed |-> 0, total |-> Len(shuffledCards)]
               /\ currentCardIndex' = 0
               /\ currentCard' = IF Len(shuffledCards) > 0 THEN shuffledCards[1]
                                 ELSE NoCard
               /\ UNCHANGED sessionStats
     ELSE UNCHANGED <<studyCards, progress, sessionStats, currentCardIndex, currentCard>>
  /\ isLoading' = FALSE
  /\ UNCHANGED <<calcVars, todayVars, rateVars, screenVars, storeLogs, storeSettings, clock, uuid,
                 loads, calls, deckId, deck, cards, logs, settings>>

\* resetSession: it has no await and runs in one piece
ResetSession ==
  /\ events < MaxEvents
  /\ events' = events + 1
  /\ IF settings # NoSettings /\ deck # NoDeck
     THEN LET today == calculateTodayCards(logs, settings.newCardsPerDay,
                                           settings.reviewCardsPerDay,
                                           deck.cardIds, clock)
              todayCardIds == today.reviewCardIds \o today.newCardIds
              todayCards == SelectSeq(cards, LAMBDA card : card \in Range(todayCardIds))
          IN \E shuffledCards \in Shuffles(todayCards) :
               /\ studyCards' = shuffledCards
               /\ progress' = [completed |-> 0, total |-> Len(shuffledCards)]
               /\ sessionStats' = InitialStats
               /\ currentCardIndex' = 0
               /\ currentCard' = IF Len(shuffledCards) > 0 THEN shuffledCards[1]
                                 ELSE NoCard
     ELSE UNCHANGED <<studyCards, progress, sessionStats, currentCardIndex, currentCard>>
  /\ isLoading' = FALSE
  /\ UNCHANGED <<calcVars, todayVars, rateVars, screenVars, storeLogs, storeSettings, clock, uuid,
                 loads, calls, deckId, deck, cards, logs, settings>>

\* a day passes
AdvanceClock ==
  /\ events < MaxEvents
  /\ events' = events + 1
  /\ clock' = clock + DAY
  /\ UNCHANGED <<calcVars, todayVars, rateVars, screenVars, storeLogs, storeSettings, uuid,
                 hookVars, loads, calls>>

Next ==
  \/ \E i \in 1..Len(loads) : LoadSettings(i)
  \/ \E i \in 1..Len(loads) : LoadDeck(i)
  \/ \E i \in 1..Len(loads) : LoadCards(i)
  \/ \E i \in 1..Len(loads) : LoadLogs(i)
  \/ \E id \in DeckIds \cup {MissingDeckId} : ChangeDeck(id)
  \/ \E responseType \in ResponseType, responseTime \in ResponseTimes :
       HandleResponse(responseType, responseTime) /\ UNCHANGED screenVars
  \/ \E i \in 1..Len(calls) : LogStorageGetAll(i)
  \/ \E i \in 1..Len(calls) : HandleResponseResume(i)
  \/ ResetSession
  \/ AdvanceClock

Spec == Init /\ [][Next]_vars

\* ------------------------------------------------------------------------
\* The study screen and its Card (app/(tabs)/study.tsx, components/Card.tsx)
\* ------------------------------------------------------------------------

\* the presses of a response button are counted up to MaxPresses, and then
\* from 1 again
MaxPresses == 2

\* the screen renders the Card: the deck is loaded, currentCard is not null
\* and the session is not complete
CardShown == deck # NoDeck /\ currentCard # NoCard /\ ~isSessionComplete

\* Card.flipCard, the press on the front of the card: it sets isFlipped (and
\* the Card's own responseTime, which nothing reads); it does not call the
\* onFlip prop, so StudyScreen.onCardFlip and its setResponseTime never run
FlipCard ==
  /\ CardShown
  /\ ~isFlipped
  /\ isFlipped' = TRUE
  /\ UNCHANGED <<calcVars, todayVars, rateVars, storeVars, hookVars, loads, calls,
                 scrStartTime, scrResponseTime, presses>>

\* a press on a response button of the flipped card: Card.handleResponse calls
\* onResponse, which is StudyScreen.onCardResponse
PressResponse(responseType) ==
  /\ CardShown
  /\ isFlipped
  /\ presses' = IF presses < MaxPresses THEN presses + 1 ELSE 1
  /\ IF scrResponseTime > 0
     THEN /\ HandleResponse(responseType, scrResponseTime)
          /\ scrStartTime' = clock
          /\ scrResponseTime' = NoTime
          /\ UNCHANGED isFlipped
     ELSE UNCHANGED <<calcVars, todayVars, rateVars, storeVars, hookVars, loads, calls,
                      scrStartTime, scrResponseTime, isFlipped>>

ScreenNext ==
  \/ \E i \in 1..Len(loads) : LoadSettings(i)
  \/ \E i \in 1..Len(loads) : LoadDeck(i)
  \/ \E i \in 1..Len(loads) : LoadCards(i)
  \/ \E i \in 1..Len(loads) : LoadLogs(i)
  \/ FlipCard
  \/ \E responseType \in ResponseType : PressResponse(responseType)

\* the screen with its loads and UI events, each of which happens in the end
SpecScreen == Init /\ [][ScreenNext]_vars /\ WF_vars(ScreenNext)

\* ------------------------------------------------------------------------
\* Specification of calculateSuccessRate as a pure function
\* ------------------------------------------------------------------------

\* largest response time handed to calculateSuccessRate, in seconds
MaxSeconds == 25

\* the success degree of each response type, on a scale of 0 to 5
EASE_FACTORS == [wrong |-> 0, again |-> 1, hard |-> 2, correct |-> 3, easy |-> 5]

\* responseTime is in milliseconds; timeFactor is in tenths
calculateSuccessRate(responseType, responseTime) ==
  LET baseFactor == EASE_FACTORS[responseType]
      timeFactor == IF responseTime > 10000 THEN 9
                    ELSE IF responseTime > 20000 THEN 7
                    ELSE 10
      successRate == (baseFactor * 100 * timeFactor) \div (5 * 10)
  IN Max(0, Min(100, successRate))

\* the responseTime arguments: whole seconds, and a millisecond past them
RateTimes == { sec * 1000 + ms : sec \in 0..MaxSeconds, ms \in {0, 1} }

RateInit ==
  /\ CalcIdle
  /\ TodayIdle
  /\ RateIdle
  /\ SessIdle

\* calculateSuccessRate(responseType, responseTime)
RateCall ==
  /\ ~rCall.made
  /\ \E responseType \in ResponseType, responseTime \in RateTimes :
       rCall' = [made |-> TRUE,
                 responseType |-> responseType,
                 responseTime |-> responseTime,
                 result |-> calculateSuccessRate(responseType, responseTime)]
  /\ UNCHANGED <<calcVars, todayVars, sessVars>>

RateNext == RateCall

SpecRate == RateInit /\ [][RateNext]_vars

\* ------------------------------------------------------------------------
\* Specification of calculateNextReviewDate as a pure function
\* ------------------------------------------------------------------------

CalcCard == "c1"
OtherCard == "c2"

\* the (responseType, scheduled interval) shapes of the card's prior logs
CalcLogKinds ==
  { [responseType |-> "wrong",   interval |-> HOUR],
    [responseType |-> "correct", interval |-> 3 * DAY],
    [responseType |-> "easy",    interval |-> 100 * DAY] }

\* prior logs were studied ten days apart
CalcStudiedAt(slot) == slot * 10 * DAY

CalcLog(slot, cardId, kind) ==
  [id |-> slot, cardId |-> cardId, deckId |-> "d1",
   studiedAt |-> CalcStudiedAt(slot), responseTime |-> 0,
   responseType |-> kind.responseType,
   nextReviewDate |-> CalcStudiedAt(slot) + kind.interval]

\* the instant the latest possible correct/3-day log falls due
CalcNowBase == CalcStudiedAt(MaxLogs) + 3 * DAY

CalcNows ==
  { CalcNowBase - 1, CalcNowBase, CalcNowBase + 7 * DAY, CalcNowBase + 7 * DAY + 1 }

\* the (intervals, multipliers) arguments: the function's defaults, and the
\* table handleResponse builds from user-adjusted settings
CalcTables ==
  { [intervals |-> DEFAULT_INTERVALS, multipliers |-> DEFAULT_MULTIPLIERS],
    [intervals |-> IntervalsOf(LongReviewIntervals),
     multipliers |-> MultipliersOf(LongReviewIntervals)] }

CalcInit ==
  /\ CalcIdle
  /\ TodayIdle
  /\ RateIdle
  /\ SessIdle

\* the caller appends one more prior log, in any order of study time
CalcAddLog ==
  /\ ~cCall.made
  /\ Len(cLogs) < MaxLogs
  /\ \E slot \in 1..MaxLogs :
       /\ \A i \in 1..Len(cLogs) : cLogs[i].id # slot
       /\ \/ \E kind \in CalcLogKinds :
               cLogs' = Append(cLogs, CalcLog(slot, CalcCard, kind))
          \/ cLogs' = Append(cLogs, CalcLog(slot, OtherCard,
                                            [responseType |-> "correct", interval |-> 3 * DAY]))
  /\ UNCHANGED <<cCall, todayVars, sessVars, rateVars>>

\* calculateNextReviewDate(cardId, responseType, previousLogs, intervals, multipliers)
CalcCall ==
  /\ ~cCall.made
  /\ \E responseType \in ResponseType, table \in CalcTables, now \in CalcNows :
       cCall' = [made |-> TRUE,
                 responseType |-> responseType,
                 intervals |-> table.intervals,
                 multipliers |-> table.multipliers,
                 now |-> now,
                 result |-> calculateNextReviewDate(CalcCard, responseType, cLogs,
                                                    table.intervals,
                                                    table.multipliers, now)]
  /\ UNCHANGED <<cLogs, todayVars, sessVars, rateVars>>

CalcNext == CalcAddLog \/ CalcCall

SpecCalc == CalcInit /\ [][CalcNext]_vars

\* ------------------------------------------------------------------------
\* Specification of calculateTodayCards as a pure function
\* ------------------------------------------------------------------------

\* largest number of logs handed to calculateTodayCards
MaxTodayLogs == 3

TodayCards == {"c1", "c2", "c3"}

\* Date.now() of the call: noon of day 10
TodayNow == 10 * DAY + 12 * HOUR

\* the (studiedAt, nextReviewDate) shapes of the logs, at the edges of the
\* due test and of today's window
TodayLogKinds ==
  { \* studied five days ago, due exactly now
    [studiedAt |-> TodayNow - 5 * DAY, nextReviewDate |-> TodayNow],
    \* studied five days ago, due one tick after now
    [studiedAt |-> TodayNow - 5 * DAY, nextReviewDate |-> TodayNow + 1],
    \* studied at today's midnight, due in the future
    [studiedAt |-> TodayStart(TodayNow), nextReviewDate |-> TodayNow + HOUR],
    \* studied one tick before today's midnight, already due
    [studiedAt |-> TodayStart(TodayNow) - 1, nextReviewDate |-> TodayNow - 1],
    \* studied one tick before today's midnight, due in the future
    [studiedAt |-> TodayStart(TodayNow) - 1, nextReviewDate |-> TodayNow + HOUR] }

TodayLog(n, cardId, kind) ==
  [id |-> n, cardId |-> cardId, deckId |-> "d1",
   studiedAt |-> kind.studiedAt, responseTime |-> 0,
   responseType |-> "correct",
   nextReviewDate |-> kind.nextReviewDate]

\* the allCardIds arguments: scopes of none, some and all of the cards
TodayScopes ==
  { <<>>, <<"c1", "c2", "c3">>, <<"c3", "c2", "c1">>, <<"c2", "c3">> }

\* the (newCardsPerDay, reviewCardsPerDay) arguments
TodayCaps ==
  { <<0, 0>>, <<1, 2>>, <<2, 1>>, <<3, 3>>, <<-1, 1>>, <<1, -1>> }

TodayInit ==
  /\ CalcIdle
  /\ TodayIdle
  /\ RateIdle
  /\ SessIdle

\* one more log in the list handed to the selector
TodayAddLog ==
  /\ ~tCall.made
  /\ Len(tLogs) < MaxTodayLogs
  /\ \E cardId \in TodayCards, kind \in TodayLogKinds :
       tLogs' = Append(tLogs, TodayLog(Len(tLogs) + 1, cardId, kind))
  /\ UNCHANGED <<tCall, calcVars, sessVars, rateVars>>

\* calculateTodayCards(logs, newCardsPerDay, reviewCardsPerDay, allCardIds)
TodayCall ==
  /\ ~tCall.made
  /\ \E caps \in TodayCaps, allCardIds \in TodayScopes :
       LET today == calculateTodayCards(tLogs, caps[1], caps[2], allCardIds, TodayNow)
       IN tCall' = [made |-> TRUE,
                    newCardsPerDay |-> caps[1],
                    reviewCardsPerDay |-> caps[2],
                    allCardIds |-> allCardIds,
                    now |-> TodayNow,
                    newCardIds |-> today.newCardIds,
                    reviewCardIds |-> today.reviewCardIds,
                    second |-> NoCall]
  /\ UNCHANGED <<tLogs, calcVars, sessVars, rateVars>>

\* Date.now() of a second call: one tick later, or the same time next day
TodayLaterNows == { TodayNow + 1, TodayNow + DAY }

\* the same call once more, with the same arguments and no log written since
TodayCallAgain ==
  /\ tCall.made
  /\ ~tCall.second.made
  /\ \E now \in TodayLaterNows :
       LET today == calculateTodayCards(tLogs, tCall.newCardsPerDay,
                                        tCall.reviewCardsPerDay,
                                        tCall.allCardIds, now)
       IN tCall' = [tCall EXCEPT !.second = [made |-> TRUE,
                                             now |-> now,
                                             newCardIds |-> today.newCardIds,
                                             reviewCardIds |-> today.reviewCardIds]]
  /\ UNCHANGED <<tLogs, calcVars, sessVars, rateVars>>

TodayNext == TodayAddLog \/ TodayCall \/ TodayCallAgain

SpecToday == TodayInit /\ [][TodayNext]_vars

\* ------------------------------------------------------------------------
\* Properties of calculateNextReviewDate (checked under SpecCalc)
\* ------------------------------------------------------------------------

\* the prior logs of the card among the logs supplied
CalcCardLogs == CardLogsOf(cLogs, CalcCard)

\* the interval the call computed: result minus now
CalcInterval == cCall.result - cCall.now

\* the prior log with the maximum studiedAt
MostRecentLog(cardLogs) ==
  CHOOSE l \in { cardLogs[i] : i \in 1..Len(cardLogs) } :
    \A i \in 1..Len(cardLogs) : cardLogs[i].studiedAt <= l.studiedAt

\* the supplied list holds no log of the card
CalcNoPriorLog == \A i \in 1..Len(cLogs) : cLogs[i].cardId # CalcCard

\* C2 (as stated): with no prior log for the card, the result is exactly
\* now + baseInterval[responseType], for every interval table.
C2_FirstExposureIsBase ==
  (cCall.made /\ CalcNoPriorLog)
    => cCall.result = cCall.now + cCall.intervals[cCall.responseType]

\* C2 (amended): with no prior log for the card, the result is exactly
\* now + min(baseInterval[responseType], 180 days); no multiplier is applied.
C2_FirstExposureIsClampedBase ==
  (cCall.made /\ CalcNoPriorLog)
    => cCall.result = cCall.now + Min(cCall.intervals[cCall.responseType], MAX_INTERVAL)

\* a first exposure computed while logs of another card are in the list
C2_Witness ==
  /\ cCall.made
  /\ CalcNoPriorLog
  /\ Len(cLogs) > 0
  /\ cCall.responseType = "easy"
  /\ cCall.result = cCall.now + 7 * DAY

\* C3 (as stated): a WRONG response always yields result - now equal to
\* baseInterval[WRONG], whatever the history and the interval table.
C3_WrongResetsToBase ==
  (cCall.made /\ cCall.responseType = "wrong")
    => CalcInterval = cCall.intervals["wrong"]

\* C3 (amended): a WRONG response always yields result - now equal to
\* min(baseInterval[WRONG], 180 days), whatever the history.
C3_WrongResetsToClampedBase ==
  (cCall.made /\ cCall.responseType = "wrong")
    => CalcInterval = Min(cCall.intervals["wrong"], MAX_INTERVAL)

\* a WRONG response to a card whose first-listed log scheduled 100 days
C3_Witness ==
  /\ cCall.made
  /\ cCall.responseType = "wrong"
  /\ Len(CalcCardLogs) > 0
  /\ PreviousInterval(CalcCardLogs) = 100 * DAY
  /\ CalcInterval = HOUR

\* C4 (as stated): for a non-WRONG response the interval is never less than
\* baseInterval[responseType].
C4_FloorIsBase ==
  (cCall.made /\ cCall.responseType # "wrong")
    => CalcInterval >= cCall.intervals[cCall.responseType]

\* C4 (amended): for a non-WRONG response the interval is never less than
\* min(baseInterval[responseType], 180 days).
C4_FloorIsClampedBase ==
  (cCall.made /\ cCall.responseType # "wrong")
    => CalcInterval >= Min(cCall.intervals[cCall.responseType], MAX_INTERVAL)

\* the multiplied previous interval (1 hour * 2.0 * 0.7) is below the three
\* days of CORRECT and the floor decides
C4_Witness ==
  /\ cCall.made
  /\ cCall.responseType = "correct"
  /\ Len(CalcCardLogs) > 0
  /\ PreviousInterval(CalcCardLogs) = HOUR
  /\ CalcInterval = 3 * DAY

\* C5: the interval computed never exceeds 180 days.
C5_Ceiling ==
  cCall.made => CalcInterval <= TicksPerMinute * 60 * 24 * 180

\* a 100-day previous interval doubled by CORRECT is cut to the ceiling
C5_Witness ==
  /\ cCall.made
  /\ cCall.responseType = "correct"
  /\ Len(CalcCardLogs) > 0
  /\ PreviousInterval(CalcCardLogs) = 100 * DAY
  /\ CalcInterval = TicksPerMinute * 60 * 24 * 180

\* the supplied list in every order
CalcPermutations ==
  { [i \in 1..Len(cLogs) |-> cLogs[p[i]]] : p \in Permutations(1..Len(cLogs)) }

\* C7: the log used as lastLog is the prior log with the maximum studiedAt,
\* and the result is the same for every order of the prior-log list.
C7_LastLogIsMostRecent ==
  (cCall.made /\ Len(CalcCardLogs) > 0)
    => /\ LastLogOf(CalcCardLogs) = MostRecentLog(CalcCardLogs)
       /\ \A order \in CalcPermutations :
            calculateNextReviewDate(CalcCard, cCall.responseType, order,
                                    cCall.intervals, cCall.multipliers, cCall.now)
              = cCall.result

\* the length of the run of CORRECT or EASY logs at the most recent end of
\* the history: the logs with no other response at or after them
RecentCorrectRun(cardLogs) ==
  Cardinality({ i \in 1..Len(cardLogs) :
                  \A j \in 1..Len(cardLogs) :
                    cardLogs[j].studiedAt >= cardLogs[i].studiedAt
                      => cardLogs[j].responseType \in {"correct", "easy"} })

\* C8: for a non-WRONG response to a card with prior logs, consecutiveCorrect
\* is the length of the run of CORRECT or EASY responses at the most recent
\* end of the history, in whatever order the logs are supplied, and the
\* multiplier carries the factor 1 + consecutiveCorrect * 0.1.
C8_StreakIsMostRecentRun ==
  (cCall.made /\ cCall.responseType # "wrong" /\ Len(CalcCardLogs) > 0)
    => /\ ConsecutiveCorrect(CalcCardLogs) = RecentCorrectRun(CalcCardLogs)
       /\ ConsecutiveFactor(CalcCardLogs) = 10 + RecentCorrectRun(CalcCardLogs)

\* C9: with lastLog the most recent prior log, the multiplier is scaled by
\* 0.9 exactly when now < lastLog.nextReviewDate, by 0.7 exactly when
\* now > lastLog.nextReviewDate + 7 days, and is unscaled otherwise.
C9_TimingOfMostRecent ==
  (cCall.made /\ Len(CalcCardLogs) > 0)
    => LET lastLog == MostRecentLog(CalcCardLogs)
           factor == TimingFactor(LastLogOf(CalcCardLogs), cCall.now)
       IN /\ factor = 9 <=> cCall.now < lastLog.nextReviewDate
          /\ factor = 7 <=> cCall.now > lastLog.nextReviewDate + 7 * DAY
          /\ factor = 10 <=> /\ cCall.now >= lastLog.nextReviewDate
                             /\ cCall.now <= lastLog.nextReviewDate + 7 * DAY

\* ------------------------------------------------------------------------
\* Properties of calculateTodayCards (checked under SpecToday)
\* ------------------------------------------------------------------------

\* the cards of the scope that no supplied log mentions
TodayUnlogged ==
  { id \in { tCall.allCardIds[i] : i \in 1..Len(tCall.allCardIds) } :
      \A i \in 1..Len(tLogs) : tLogs[i].cardId # id }

C11_NewReviewDisjoint ==
  tCall.made => Range(tCall.newCardIds) \cap Range(tCall.reviewCardIds) = {}

\* a call over a scope holding a logged, due card and an unlogged card: both
\* lists are non-empty
C11_Witness ==
  /\ tCall.made
  /\ tCall.newCardIds # <<>>
  /\ \E id \in Range(tCall.reviewCardIds) : id \in Range(tCall.allCardIds)

\* the logs of a card that no other log of the card was studied after
TodayLatestLogs(cardId) ==
  { i \in 1..Len(tLogs) :
      /\ tLogs[i].cardId = cardId
      /\ \A j \in 1..Len(tLogs) :
           tLogs[j].cardId = cardId => tLogs[j].studiedAt <= tLogs[i].studiedAt }

\* C12: every id returned in reviewCardIds is due by its latest log: the log
\* of the card with the maximum studiedAt has nextReviewDate <= now, so a card
\* whose latest log is scheduled in the future is not queued for an older,
\* overdue log.
C12_ReviewIsDueByLatestLog ==
  tCall.made =>
    \A id \in Range(tCall.reviewCardIds) :
      \E i \in TodayLatestLogs(id) : tLogs[i].nextReviewDate <= tCall.now

\* the midnight that begins the day of the call
TodayMidnight == tCall.now - (tCall.now % DAY)

\* log i was studied inside the day of the call
TodayInWindow(i) ==
  /\ tLogs[i].studiedAt >= TodayMidnight
  /\ tLogs[i].studiedAt < TodayMidnight + DAY

\* C13: a card with any log studied inside today's window [midnight,
\* midnight + 24h) is in neither reviewCardIds nor newCardIds, even if another
\* log of it is overdue.
C13_StudiedTodayExcluded ==
  tCall.made =>
    \A i \in 1..Len(tLogs) :
      TodayInWindow(i) =>
        /\ tLogs[i].cardId \notin Range(tCall.reviewCardIds)
        /\ tLogs[i].cardId \notin Range(tCall.newCardIds)

\* a card of the scope with an overdue log of an earlier day and a log of
\* today, under positive caps: it is left out of the review list
C13_Witness ==
  /\ tCall.made
  /\ tCall.reviewCardsPerDay > 0
  /\ \E i, j \in 1..Len(tLogs) :
       /\ tLogs[i].cardId = tLogs[j].cardId
       /\ tLogs[i].cardId \in Range(tCall.allCardIds)
       /\ TodayInWindow(i)
       /\ ~TodayInWindow(j)
       /\ tLogs[j].nextReviewDate <= tCall.now
       /\ tLogs[i].cardId \notin Range(tCall.reviewCardIds)

\* the ids of the scope that no supplied log mentions, in the scope's order
TodayUnloggedSeq == SelectSeq(tCall.allCardIds, LAMBDA id : id \in TodayUnlogged)

TodaySecondSame ==
  /\ tCall.second.newCardIds = tCall.newCardIds
  /\ tCall.second.reviewCardIds = tCall.reviewCardIds

TodayNothingFallsDue ==
  /\ tCall.second.now < TodayMidnight + DAY
  /\ \A i \in 1..Len(tLogs) :
       ~(tLogs[i].nextReviewDate > tCall.now
         /\ tLogs[i].nextReviewDate <= tCall.second.now)

C23_NegativeCapGivesEmpty ==
  tCall.made =>
    /\ tCall.newCardsPerDay < 0 => tCall.newCardIds = <<>>
    /\ tCall.reviewCardsPerDay < 0 => tCall.reviewCardIds = <<>>

\* ------------------------------------------------------------------------
\* Properties of the study session (checked under Spec)
\* ------------------------------------------------------------------------

\* a step in which a handleResponse call ends
ResponseReturns == Len(calls') < Len(calls)

\* C1: when handleResponse is called with a current card and LogStorage.save
\* fails (the store is left as it was), the session is not advanced by the
\* time the call returns: currentCard, currentCardIndex, progress and
\* sessionStats are unchanged.
C1_FailedSaveKeepsSession ==
  [][ (ResponseReturns /\ storeLogs' = storeLogs)
        => UNCHANGED <<currentCard, currentCardIndex, progress, sessionStats>> ]_vars

\* C6: every StudyLog that handleResponse created and that is in the store
\* has nextReviewDate > studiedAt, whatever reviewIntervals the user saved.
C6_NextReviewAfterStudied ==
  \A i \in 1..Len(storeLogs) :
    storeLogs[i].id > 0 => storeLogs[i].nextReviewDate > storeLogs[i].studiedAt

\* a step in which a handleResponse call ends with its log saved
ResponseSaved == ResponseReturns /\ storeLogs' # storeLogs

\* the logs of the store after the step that were not in it before
NewlySaved ==
  { k \in 1..Len(storeLogs') :
      \A m \in 1..Len(storeLogs) : storeLogs[m].id # storeLogs'[k].id }

\* C16: a successful handleResponse on the current card persists one new
\* StudyLog and advances currentCardIndex by exactly 1; the current card
\* becomes studyCards[currentCardIndex] while the index is below the queue
\* length, and when the index reaches the queue length the session is complete
\* with no current card; the index never exceeds the queue length.
C16_ResponseAdvancesByOne ==
  [][ ResponseSaved =>
        /\ Cardinality(NewlySaved) = 1
        /\ \A k \in NewlySaved : storeLogs'[k].cardId = currentCard
        /\ currentCardIndex' = currentCardIndex + 1
        /\ currentCardIndex' <= Len(studyCards')
        /\ currentCard' = IF currentCardIndex' < Len(studyCards')
                          THEN studyCards'[currentCardIndex' + 1] ELSE NoCard
        /\ (currentCardIndex' = Len(studyCards')
              => (progress'.completed = progress'.total /\ progress'.total > 0)) ]_vars

\* a step that is a call of handleResponse
RespondStep ==
  \E responseType \in ResponseType, responseTime \in ResponseTimes :
    HandleResponse(responseType, responseTime)

\* C17: handleResponse called when there is no current card is a no-op: no
\* StudyLog is created or written, and index, progress, statistics and queue
\* are unchanged.
C17_NoCardNoOp ==
  [][ (currentCard = NoCard /\ RespondStep)
        => UNCHANGED <<storeLogs, calls, uuid, currentCardIndex, currentCard,
                       progress, sessionStats, studyCards, logs>> ]_vars

\* handleResponse was called while the first load had not yet resumed: the
\* one event so far is neither a rejected storage call, a change of deckId, a
\* reset nor a day passing
C17_Witness ==
  /\ events = 1
  /\ currentCard = NoCard
  /\ isLoading
  /\ clock = StartNow
  /\ loads = <<NewLoad(deckId)>>
  /\ calls = <<>>
  /\ uuid = 0

\* C18: one response is accepted per presented card: no two calls of
\* handleResponse create a StudyLog for the same card presented at the same
\* position, also when the second call comes before the state update of the
\* first one is applied.
C18_OneResponsePerCard ==
  \A i, j \in 1..Len(calls) :
    i # j => \/ calls[i].studyLog.cardId # calls[j].studyLog.cardId
             \/ calls[i].nextIndex # calls[j].nextIndex

\* a step in which the run of loadDeckAndCards for deck id reaches its end
\* with the queue built
LoadCompletes(id) ==
  \E i \in 1..Len(loads) :
    /\ loads[i].pc = "logs"
    /\ loads[i].deckId = id
    /\ loads' = RemoveAt(loads, i)

\* C19: whenever a load for an existing deck completes, also a second one
\* after deckId changed mid-session, currentCardIndex is 0 and the current
\* card is the first card of the fresh queue, or there is none when that
\* queue is empty.
C19_StartAtPositionZero ==
  [][ (\E id \in DeckIds : LoadCompletes(id)) =>
        /\ currentCardIndex' = 0
        /\ currentCard' = IF studyCards' # <<>> THEN studyCards'[1] ELSE NoCard ]_vars

\* C20: every card of the queue a load builds belongs to the loaded deck,
\* whatever logs the store holds for cards of other decks.
C20_QueueWithinDeck ==
  [][ \A id \in DeckIds :
        LoadCompletes(id) => Range(studyCards') \subseteq Range(Deck(id).cardIds) ]_vars

\* the midnight that begins the day of the clock
ClockMidnight == clock - (clock % DAY)

\* the cards with a log of the hook that handleResponse created today
AnsweredToday ==
  { logs[i].cardId : i \in { k \in 1..Len(logs) :
                               /\ logs[k].id > 0
                               /\ logs[k].studiedAt >= ClockMidnight
                               /\ logs[k].studiedAt < ClockMidnight + DAY } }

\* C21: after resetSession, currentCardIndex, progress.completed and every
\* statistic are zero, and the new queue is computed from logs that include
\* those of the session so far: no card answered in the session on the same
\* day is in the new queue.
C21_ResetClearsAndExcludesAnswered ==
  [][ ResetSession =>
        /\ currentCardIndex' = 0
        /\ progress'.completed = 0
        /\ sessionStats' = InitialStats
        /\ AnsweredToday \cap Range(studyCards') = {} ]_vars

\* one card was answered and the session then reset: the statistics are back
\* to zero and the answered card is not queued again
C21_Witness ==
  /\ events = 2
  /\ uuid = 1
  /\ calls = <<>>
  /\ AnsweredToday # {}
  /\ AnsweredToday \cap Range(studyCards) = {}
  /\ studyCards # <<>>
  /\ sessionStats = InitialStats
  /\ currentCardIndex = 0
  /\ progress.completed = 0

\* a step in which the run of loadDeckAndCards for a deckId that names no
\* stored deck ends: getById returned null and the load threw
LoadNotFound ==
  \E i \in 1..Len(loads) :
    /\ loads[i].pc = "deck"
    /\ loads[i].deckId \notin DeckIds
    /\ loads' = RemoveAt(loads, i)

\* C22: when the load names a deck absent from the store, the session does
\* not start: once the load has ended there is no current card, the queue is
\* empty and total is 0, whatever an earlier successful load left behind.
C22_NotFoundLeavesNoSession ==
  [][ LoadNotFound =>
        /\ currentCard' = NoCard
        /\ studyCards' = <<>>
        /\ progress'.total = 0 ]_vars

\* C24: when the queue a load builds for the deck is empty, the session is
\* at once complete: isSessionComplete is true, total is 0 and there is no
\* current card.
C24_EmptyQueueIsComplete ==
  [][ ((\E id \in DeckIds : LoadCompletes(id)) /\ studyCards' = <<>>) =>
        /\ isSessionComplete'
        /\ progress'.total = 0
        /\ currentCard' = NoCard ]_vars

\* C25: logs are append-only: every StudyLog that is in the store is still
\* in it, unmodified, after any later step, whatever saves overlap.
C25_LogsAppendOnly ==
  [][ \A i \in 1..Len(storeLogs) :
        \E k \in 1..Len(storeLogs') : storeLogs'[k] = storeLogs[i] ]_vars

\* the responses counted in sessionStats
StatsSum ==
  sessionStats.correct + sessionStats.incorrect + sessionStats.again
    + sessionStats.hard + sessionStats.easy

\* C28: in every session state the per-type statistics sum to
\* progress.completed, which equals the position currentCardIndex (and the
\* number of logs written since the last start or reset), and
\* progress.completed is at most progress.total.
C28_CountersAgree ==
  /\ StatsSum = progress.completed
  /\ progress.completed = currentCardIndex
  /\ progress.completed <= progress.total

\* C29: outside loading, the current card is non-null exactly when the
\* position is below the queue length, and it is then the queue's card at
\* the position; a complete session has no current card.
C29_CurrentCardAtPosition ==
  (~isLoading /\ loads = <<>>) =>
    /\ (currentCard # NoCard) <=> (currentCardIndex < Len(studyCards))
    /\ currentCard # NoCard => currentCard = studyCards[currentCardIndex + 1]
    /\ isSessionComplete => currentCard = NoCard

\* the load of a superseded deckId finishes last, after a deck change that
\* is the only event (no response, no reset, no rejected storage call)
SupersededFinishesLast ==
  /\ Len(loads) = 1
  /\ loads' = <<>>
  /\ loads[1].deckId # deckId
  /\ deckId \in DeckIds
  /\ events' = 1

\* the cards loadDeckAndCards queues for deck id from the store as it is
QueueFor(id) ==
  LET today == calculateTodayCards(storeLogs, storeSettings.newCardsPerDay,
                                   storeSettings.reviewCardsPerDay,
                                   Deck(id).cardIds, clock)
  IN (Range(today.reviewCardIds) \cup Range(today.newCardIds)) \cap Range(AllCards)

\* C30: when deckId changes while an earlier load is in flight, then once
\* both loads have finished the deck, cards, queue, current card and total
\* are those computed for the latest deckId, not those of the superseded load.
C30_LatestDeckWins ==
  [][ SupersededFinishesLast =>
        /\ deck' = Deck(deckId)
        /\ Range(cards') = Range(Deck(deckId).cardIds)
        /\ Range(studyCards') = QueueFor(deckId)
        /\ studyCards' # <<>> => currentCard' = studyCards'[1]
        /\ progress'.total = Len(studyCards') ]_vars

\* ------------------------------------------------------------------------
\* Properties of the study screen (checked under SpecScreen)
\* ------------------------------------------------------------------------

\* C26: whenever a card is presented and flipped and a response button is
\* pressed, handleResponse is invoked for it in the end, so that a log is
\* created and the session can advance.
C26_PressLeadsToResponse ==
  (CardShown /\ isFlipped /\ presses > 0) ~> (uuid > 0)

\* ------------------------------------------------------------------------
\* Properties of calculateSuccessRate (checked under SpecRate)
\* ------------------------------------------------------------------------

\* C27: calculateSuccessRate returns (easeValue / 5) * 100 scaled by 1.0 up
\* to 10 s, by 0.9 above 10 s and up to 20 s, and by 0.7 above 20 s; the
\* result is within 0..100.
C27_SuccessRateScaling ==
  rCall.made =>
    LET base == (EASE_FACTORS[rCall.responseType] * 100) \div 5
        tenths == IF rCall.responseTime > 20000 THEN 7
                  ELSE IF rCall.responseTime > 10000 THEN 9
                  ELSE 10
    IN /\ rCall.result = (base * tenths) \div 10
       /\ rCall.result \in 0..100

====
